---- MODULE Spec2Model ----
(***************************************************************************)
(* fixspot (src/app.py): identifier extraction, the TTL cache and the     *)
(* oEmbed fetch behind handle_request.  Strings are sequences of          *)
(* one-character strings, so the regular expressions, str.strip and       *)
(* urllib's unquote are computed character by character.                   *)
(***************************************************************************)
EXTENDS Integers, Sequences, FiniteSets, TLC

\* ------------------------------------------------------------------ text
\* Python's None / an optional value: None is the empty tuple, Some(v) = <<v>>.
None == << >>
Some(v) == << v >>

Lowers == {"a","b","c","d","e","f","g","h","i","j","k","l","m","n","o","p","q","r","s","t","u","v","w","x","y","z"}
Uppers == {"A","B","C","D","E","F","G","H","I","J","K","L","M","N","O","P","Q","R","S","T","U","V","W","X","Y","Z"}
Digits == {"0","1","2","3","4","5","6","7","8","9"}
\* the character class [a-zA-Z0-9]
AlnumChars == Lowers \cup Uppers \cup Digits
\* the characters str.strip() removes
Whitespace == {" ", "\t", "\n", "\r"}

\* printable ASCII, code 32 first (code 96 is written <grave>)
Printable == <<" ", "!", "\"", "#", "$", "%", "&", "'", "(", ")", "*", "+", ",", "-", ".", "/", "0", "1", "2", "3", "4", "5", "6", "7", "8", "9", ":", ";", "<", "=", ">", "?", "@", "A", "B", "C", "D", "E", "F", "G", "H", "I", "J", "K", "L", "M", "N", "O", "P", "Q", "R", "S", "T", "U", "V", "W", "X", "Y", "Z", "[", "\\", "]", "^", "_", "<grave>", "a", "b", "c", "d", "e", "f", "g", "h", "i", "j", "k", "l", "m", "n", "o", "p", "q", "r", "s", "t", "u", "v", "w", "x", "y", "z", "{", "|", "}", "~">>
HexLower == <<"0","1","2","3","4","5","6","7","8","9","a","b","c","d","e","f">>
HexUpper == <<"0","1","2","3","4","5","6","7","8","9","A","B","C","D","E","F">>
IsHex(c) == \E n \in 1..16 : c = HexLower[n] \/ c = HexUpper[n]
HexVal(c) == (CHOOSE n \in 1..16 : c = HexLower[n] \/ c = HexUpper[n]) - 1
\* the character a decoded byte stands for; bytes outside printable ASCII
\* decode to a control character or (errors='replace') to U+FFFD
Chr(code) == IF code >= 32 /\ code <= 126 THEN Printable[code - 31]
             ELSE IF code < 128 THEN "<ctl>" ELSE "<U+FFFD>"

\* number of characters of a track identifier, the {22} of both patterns
IdLen == 22

ID1 == <<"4", "c", "O", "d", "K", "2", "w", "G", "L", "E", "T", "K", "B", "W", "3", "P", "v", "g", "P", "W", "q", "T">>
ID2 == <<"7", "o", "u", "M", "Y", "W", "p", "w", "J", "4", "2", "2", "j", "R", "c", "D", "A", "S", "Z", "B", "7", "P">>
TRACK_URL_PREFIX == <<"s", "p", "o", "t", "i", "f", "y", ".", "c", "o", "m", "/", "t", "r", "a", "c", "k", "/">>
TRACK_URI_PREFIX == <<"s", "p", "o", "t", "i", "f", "y", ":", "t", "r", "a", "c", "k", ":">>
CACHE_KEY_PREFIX == <<"s", "p", "o", "t", "i", "f", "y", ":">>
ORIGINAL_URL_PREFIX == <<"h", "t", "t", "p", "s", ":", "/", "/", "o", "p", "e", "n", ".", "s", "p", "o", "t", "i", "f", "y", ".", "c", "o", "m", "/", "t", "r", "a", "c", "k", "/">>

\* s has p as a substring starting at position i
StartsWithAt(s, i, p) ==
    /\ i + Len(p) - 1 <= Len(s)
    /\ \A j \in 1..Len(p) : s[i + j - 1] = p[j]

\* str.strip()
RECURSIVE LStrip(_)
LStrip(s) == IF s # << >> /\ Head(s) \in Whitespace THEN LStrip(Tail(s)) ELSE s
RECURSIVE RStrip(_)
RStrip(s) == IF s # << >> /\ s[Len(s)] \in Whitespace
             THEN RStrip(SubSeq(s, 1, Len(s) - 1)) ELSE s
StripNone(s) == s
Strip(s) == RStrip(LStrip(s))

\* urllib.parse.unquote: every % followed by two hex digits becomes the
\* character of that byte, any other % stays as it is; the string is
\* worked through from one % to the next, left to right
RECURSIVE UnquoteFrom(_, _)
UnquoteFrom(s, i) ==
    LET pct == { j \in i..Len(s) : s[j] = "%" }
    IN IF pct = {} THEN SubSeq(s, i, Len(s))
       ELSE LET j == CHOOSE a \in pct : \A b \in pct : a <= b
            IN IF j + 2 <= Len(s) /\ IsHex(s[j+1]) /\ IsHex(s[j+2])
               THEN SubSeq(s, i, j - 1) \o << Chr(16 * HexVal(s[j+1]) + HexVal(s[j+2])) >>
                        \o UnquoteFrom(s, j + 3)
               ELSE SubSeq(s, i, j) \o UnquoteFrom(s, j + 1)
UnquoteIdentity(s) == s
Unquote(s) == UnquoteFrom(s, 1)

\* ------------------------------------------------- extract_spotify_track_id
\* re.fullmatch(r'[a-zA-Z0-9]{22}', s)
FullMatchLettersOnly(s) == Len(s) = IdLen /\ \A i \in 1..Len(s) : s[i] \in Lowers \cup Uppers
FullMatchPrefix(s) == Len(s) >= IdLen /\ \A i \in 1..IdLen : s[i] \in AlnumChars
FullMatchId(s) == Len(s) = IdLen /\ \A i \in 1..Len(s) : s[i] \in AlnumChars

\* the pattern  p([a-zA-Z0-9]{22})  matches s at position i
MatchPrefixIdAt(s, i, p) ==
    /\ StartsWithAt(s, i, p)
    /\ i + Len(p) + IdLen - 1 <= Len(s)
    /\ \A j \in 0..(IdLen - 1) : s[i + Len(p) + j] \in AlnumChars
CaptureAt(s, i, p) == SubSeq(s, i + Len(p), i + Len(p) + IdLen - 1)

\* re.search(r'(?:spotify\.com\/track\/|spotify:track:)([a-zA-Z0-9]{22})', s):
\* leftmost match, the alternatives tried in order; group(1) or None
RECURSIVE SearchTrackFrom(_, _)
SearchTrackFrom(s, i) ==
    IF i > Len(s) THEN None
    ELSE IF MatchPrefixIdAt(s, i, TRACK_URL_PREFIX) THEN Some(CaptureAt(s, i, TRACK_URL_PREFIX))
    ELSE IF MatchPrefixIdAt(s, i, TRACK_URI_PREFIX) THEN Some(CaptureAt(s, i, TRACK_URI_PREFIX))
    ELSE SearchTrackFrom(s, i + 1)
SearchTrack(s) == SearchTrackFrom(s, 1)

extract_spotify_track_id(url_string) ==
    IF url_string = << >> THEN None
    ELSE IF FullMatchId(url_string) THEN Some(url_string)
    ELSE SearchTrack(Unquote(url_string))

\* --------------------------------------------------------- configuration
\* USER_AGENT_BOTS
Discordbot == <<"D", "i", "s", "c", "o", "r", "d", "b", "o", "t">>
TelegramBot == <<"T", "e", "l", "e", "g", "r", "a", "m", "B", "o", "t">>
facebookexternalhit == <<"f", "a", "c", "e", "b", "o", "o", "k", "e", "x", "t", "e", "r", "n", "a", "l", "h", "i", "t">>
Twitterbot == <<"T", "w", "i", "t", "t", "e", "r", "b", "o", "t">>
Slackbot == <<"S", "l", "a", "c", "k", "b", "o", "t">>
USER_AGENT_BOTS == <<Discordbot, TelegramBot, facebookexternalhit, Twitterbot, Slackbot>>
SERVICE_NAME == "Spotify Embed Fix"
YOUR_TWITTER_HANDLE == ""

\* bot_ua in user_agent
Contains(s, p) == \E i \in 1..(Len(s) + 1) : StartsWithAt(s, i, p)
IsBotAlways(user_agent) == TRUE
\* the letters in order, and a string with its letters put in one case
AlphaLower == <<"a", "b", "c", "d", "e", "f", "g", "h", "i", "j", "k", "l", "m", "n", "o", "p", "q", "r", "s", "t", "u", "v", "w", "x", "y", "z">>
AlphaUpper == <<"A", "B", "C", "D", "E", "F", "G", "H", "I", "J", "K", "L", "M", "N", "O", "P", "Q", "R", "S", "T", "U", "V", "W", "X", "Y", "Z">>
ToLower(s) ==
    [i \in 1..Len(s) |->
        IF s[i] \in Uppers THEN AlphaLower[CHOOSE n \in 1..26 : AlphaUpper[n] = s[i]] ELSE s[i]]
ToUpper(s) ==
    [i \in 1..Len(s) |->
        IF s[i] \in Lowers THEN AlphaUpper[CHOOSE n \in 1..26 : AlphaLower[n] = s[i]] ELSE s[i]]
IsBotIgnoreCase(user_agent) ==
    \E b \in 1..Len(USER_AGENT_BOTS) : Contains(ToLower(user_agent), ToLower(USER_AGENT_BOTS[b]))
\* any(bot_ua in user_agent for bot_ua in USER_AGENT_BOTS)
IsBot(user_agent) == \E b \in 1..Len(USER_AGENT_BOTS) : Contains(user_agent, USER_AGENT_BOTS[b])

\* f"spotify:{track_id}" and f"https://open.spotify.com/track/{track_id}"
CacheKeyBare(track_id) == track_id
CacheKey(track_id) == CACHE_KEY_PREFIX \o track_id
OriginalUrl(track_id) == ORIGINAL_URL_PREFIX \o track_id

\* ------------------------------------------- the oEmbed response, lines 66-99
SrcAttr == <<"s", "r", "c", "=", "\"">>
WidthAttr == <<"w", "i", "d", "t", "h", "=", "\"">>
HeightAttr == <<"h", "e", "i", "g", "h", "t", "=", "\"">>
DEFAULT_WIDTH == <<"3", "0", "0">>
DEFAULT_HEIGHT == <<"3", "8", "0">>
REQUIRED_KEYS == {"title", "thumbnail_url", "html"}

\* how many characters from position j on are in the class: the class is
\* the set cs, or its complement when neg
RECURSIVE RunLen(_, _, _, _)
RunLen(s, j, cs, neg) ==
    IF j <= Len(s) /\ ((s[j] \in cs) # neg) THEN 1 + RunLen(s, j + 1, cs, neg) ELSE 0

\* attr(class+)" matches s at i: the greedy run must end at a quote
AttrMatchAt(s, i, attr, cs, neg) ==
    /\ StartsWithAt(s, i, attr)
    /\ LET n == RunLen(s, i + Len(attr), cs, neg)
       IN /\ n >= 1
          /\ i + Len(attr) + n <= Len(s)
          /\ s[i + Len(attr) + n] = "\""
RECURSIVE SearchAttrFrom(_, _, _, _, _)
SearchAttrFrom(s, i, attr, cs, neg) ==
    IF i > Len(s) THEN None
    ELSE IF AttrMatchAt(s, i, attr, cs, neg)
         THEN Some(SubSeq(s, i + Len(attr), i + Len(attr) + RunLen(s, i + Len(attr), cs, neg) - 1))
         ELSE SearchAttrFrom(s, i + 1, attr, cs, neg)
\* re.search(r'src="([^"]+)"', html), r'width="(\d+)"', r'height="(\d+)"'
EmbedMatch(html) == SearchAttrFrom(html, 1, SrcAttr, {"\""}, TRUE)
WidthMatch(html) == SearchAttrFrom(html, 1, WidthAttr, Digits, FALSE)
HeightMatch(html) == SearchAttrFrom(html, 1, HeightAttr, Digits, FALSE)

\* both sizes fall back unless both are given
ResultDataCoupled(track_id, data) ==
    LET both == WidthMatch(data.html) # None /\ HeightMatch(data.html) # None
    IN [title |-> data.title,
        thumbnail_url |-> data.thumbnail_url,
        original_url |-> OriginalUrl(track_id),
        embed_url |-> EmbedMatch(data.html)[1],
        width |-> IF both THEN WidthMatch(data.html)[1] ELSE DEFAULT_WIDTH,
        height |-> IF both THEN HeightMatch(data.html)[1] ELSE DEFAULT_HEIGHT,
        provider_name |-> IF "provider_name" \in DOMAIN data THEN data.provider_name ELSE "Spotify",
        service_name |-> SERVICE_NAME,
        your_twitter_handle |-> YOUR_TWITTER_HANDLE,
        track_id |-> track_id]
\* result_data, lines 84-99
ResultData(track_id, data) ==
    [title |-> data.title,
     thumbnail_url |-> data.thumbnail_url,
     original_url |-> OriginalUrl(track_id),
     embed_url |-> EmbedMatch(data.html)[1],
     width |-> IF WidthMatch(data.html) # None THEN WidthMatch(data.html)[1] ELSE DEFAULT_WIDTH,
     height |-> IF HeightMatch(data.html) # None THEN HeightMatch(data.html)[1] ELSE DEFAULT_HEIGHT,
     provider_name |-> IF "provider_name" \in DOMAIN data THEN data.provider_name ELSE "Spotify",
     service_name |-> SERVICE_NAME,
     your_twitter_handle |-> YOUR_TWITTER_HANDLE,
     track_id |-> track_id]

\* a record kept although the html carries no src: embed_url is None
PartialData(track_id, data) ==
    [title |-> data.title,
     thumbnail_url |-> data.thumbnail_url,
     original_url |-> OriginalUrl(track_id),
     embed_url |-> None,
     width |-> DEFAULT_WIDTH,
     height |-> DEFAULT_HEIGHT,
     provider_name |-> "Spotify",
     service_name |-> SERVICE_NAME,
     your_twitter_handle |-> YOUR_TWITTER_HANDLE,
     track_id |-> track_id]
ProcessResponseKeepPartial(track_id, resp) ==
    IF resp.kind # "ok" THEN None
    ELSE IF ~(REQUIRED_KEYS \subseteq DOMAIN resp.data) THEN None
    ELSE IF EmbedMatch(resp.data.html) = None THEN Some(PartialData(track_id, resp.data))
    ELSE Some(ResultData(track_id, resp.data))
\* what the try block of get_spotify_data makes of the upstream response:
\* None (lines 74, 82, 107, 110, 113) or the record to cache
ProcessResponse(track_id, resp) ==
    IF resp.kind # "ok" THEN None
    ELSE IF ~(REQUIRED_KEYS \subseteq DOMAIN resp.data) THEN None
    ELSE IF EmbedMatch(resp.data.html) = None THEN None
    ELSE Some(ResultData(track_id, resp.data))

\* now < expiry_time, line 53
IsHitFlipped(now, expiry_time) == now > expiry_time
IsHit(now, expiry_time) == now < expiry_time
\* now + CACHE_DURATION, line 101
Expiry(now, cache_duration) == now + cache_duration

\* ------------------------------------------------------------ the inputs
NotATrack == <<"n", "o", "t", "-", "a", "-", "t", "r", "a", "c", "k">>
Query == <<"?", "s", "i", "=", "a", "b", "c">>
UA_Discord == <<"D", "i", "s", "c", "o", "r", "d", "b", "o", "t", "/", "2", ".", "0">>
UA_Browser == <<"M", "o", "z", "i", "l", "l", "a", "/", "5", ".", "0">>
HtmlFull == <<"<", "i", "f", "r", "a", "m", "e", " ", "s", "r", "c", "=", "\"", "h", "t", "t", "p", "s", ":", "/", "/", "e", "m", "b", "e", "d", ".", "s", "p", "o", "t", "i", "f", "y", "/", "a", "b", "c", "\"", " ", "w", "i", "d", "t", "h", "=", "\"", "8", "0", "\"", " ", "h", "e", "i", "g", "h", "t", "=", "\"", "3", "8", "0", "\"", ">">>
HtmlNoSrc == <<"<", "i", "f", "r", "a", "m", "e", " ", "w", "i", "d", "t", "h", "=", "\"", "8", "0", "\"", ">">>

\* raw inputs of a request: request.args.get('url', path)
RequestInputs ==
    { <<" ", "\n">>, NotATrack, <<" ">> \o ID1 \o <<"\n">>,
      ORIGINAL_URL_PREFIX \o ID2 \o Query }
\* User-Agent headers
UserAgents == { UA_Discord, UA_Browser }

\* JSON bodies of the oEmbed endpoint
JsonBodies ==
    { [title |-> "Song", thumbnail_url |-> "thumb", html |-> HtmlFull, provider_name |-> "Spotify"],
      [title |-> "Song", thumbnail_url |-> "thumb", html |-> HtmlNoSrc],
      [title |-> "Song", thumbnail_url |-> "thumb"],
      [title |-> "Song", html |-> HtmlFull],
      [thumbnail_url |-> "thumb", html |-> HtmlFull] }
\* what requests.get / raise_for_status / response.json() can produce
FailureKinds == {"timeout", "http_error", "connection_error", "bad_json"}
UpstreamResponses ==
    { [kind |-> k, data |-> None] : k \in FailureKinds }
    \cup { [kind |-> "ok", data |-> d] : d \in JsonBodies }

\* --------------------------------------------------------------- bounds
\* requests handled at the same time
NumProcs == 2
\* how far the clock runs
MaxTime == 1
\* the configured TTL, in ticks of the clock
TTLTicks == 1
Procs == 1..NumProcs
\* CACHE_DURATION = timedelta(seconds=CACHE_DURATION_SECONDS)
CACHE_DURATION == TTLTicks

\* ---------------------------------------------------------------- state
VARIABLES
    cache,           \* the module-level dict: key -> <<result_data, expiry_time>>
    clock,           \* datetime.utcnow()
    proc,            \* the requests in flight: position and locals of each
    x_pc, x_raw, x_input, x_track,  \* the extractor applied to one input
    d_pc, d_data, d_result,         \* one fetch of one oEmbed body on a miss
    b_pc, b_input, b_ua, b_out      \* handle_request's routing of one request

vars == <<cache, clock, proc, x_pc, x_raw, x_input, x_track,
          d_pc, d_data, d_result, b_pc, b_input, b_ua, b_out>>
xvars == <<x_pc, x_raw, x_input, x_track>>
dvars == <<d_pc, d_data, d_result>>
bvars == <<b_pc, b_input, b_ua, b_out>>
purevars == <<xvars, dvars, bvars>>
mainvars == <<cache, clock, proc>>

\* ------------------------------------------------------------ responses
NoResponse == [status |-> 0, kind |-> "none", location |-> None, data |-> None, message |-> None]
\* render_template_string(LANDING_PAGE_TEMPLATE, ...), 200
Landing == [NoResponse EXCEPT !.status = 200, !.kind = "landing"]
\* render_template_string(ERROR_TEMPLATE, message=...), 400
ErrorPage(input_value) == [NoResponse EXCEPT !.status = 400, !.kind = "error", !.message = Some(input_value)]
\* redirect(f"https://open.spotify.com/track/{track_id}", code=307)
Redirect(track_id) == [NoResponse EXCEPT !.status = 307, !.kind = "redirect", !.location = Some(OriginalUrl(track_id))]
\* Response(render_template_string(HTML_TEMPLATE, **spotify_data), mimetype='text/html')
Embed(spotify_data) == [NoResponse EXCEPT !.status = 200, !.kind = "embed", !.data = Some(spotify_data)]
\* an exception leaving handle_request: Flask answers 500
Unhandled == [NoResponse EXCEPT !.status = 500, !.kind = "unhandled"]

BotResponseError(track_id, spotify_data) ==
    IF spotify_data # None THEN Embed(spotify_data[1]) ELSE Unhandled
\* lines 162-167
BotResponse(track_id, spotify_data) ==
    IF spotify_data # None THEN Embed(spotify_data[1]) ELSE Redirect(track_id)

Idle ==
    [pc |-> "idle", input |-> << >>, ua |-> << >>, track_id |-> None, now |-> 0,
     result_data |-> None, response |-> NoResponse,
     invocations |-> 0, calls |-> 0, missed |-> FALSE, stored |-> FALSE, got |-> None,
     outcome |-> "none"]

CachePutKeepExpiry(c, k, v) ==
    [x \in (DOMAIN c) \cup {k} |-> IF x # k THEN c[x] ELSE IF k \in DOMAIN c THEN <<v[1], c[k][2]>> ELSE v]
CachePut(c, k, v) == [x \in (DOMAIN c) \cup {k} |-> IF x = k THEN v ELSE c[x]]
CacheDel(c, k) == [x \in (DOMAIN c) \ {k} |-> c[x]]

Init ==
    /\ cache = << >>
    /\ clock = 0
    /\ proc = [p \in Procs |-> Idle]
    /\ x_pc = "off" /\ x_raw = << >> /\ x_input = << >> /\ x_track = None
    /\ d_pc = "off" /\ d_data = << >> /\ d_result = None
    /\ b_pc = "off" /\ b_input = << >> /\ b_ua = << >> /\ b_out = << >>

\* -------------------------------------------------------------- actions
\* A computed response is sent, and its worker freed, before anything else
\* happens: sending touches neither the cache nor another request
Sent == \A q \in Procs : proc[q].pc # "done"

\* handle_request up to the call of get_spotify_data, lines 140-171: the
\* branch taken, the identifier, and the response of the branches that
\* answer at once
HandleRequest(input, user_agent) ==
    LET input_value == Strip(input)
        track_id == extract_spotify_track_id(input_value)
    IN IF input_value = << >>
         THEN [branch |-> "landing", track_id |-> None, response |-> Landing]
       ELSE IF track_id = None
         THEN [branch |-> "error", track_id |-> None, response |-> ErrorPage(input_value)]
       ELSE IF IsBot(user_agent)
         THEN [branch |-> "bot", track_id |-> track_id, response |-> NoResponse]
       ELSE [branch |-> "redirect", track_id |-> track_id, response |-> Redirect(track_id[1])]
\* HandleRequest over the inputs of the model, computed once
Handled == [input \in RequestInputs, user_agent \in UserAgents |-> HandleRequest(input, user_agent)]
\* ProcessResponse over the identifiers and responses of the model, computed once
TrackIds == { Handled[x].track_id[1] : x \in { y \in DOMAIN Handled : Handled[y].track_id # None } }
Processed == [track_id \in TrackIds, resp \in UpstreamResponses |-> ProcessResponse(track_id, resp)]

\* a request arrives (lines 140-160); a bot request with an identifier
\* enters get_spotify_data, whose first statement reads the clock (line 48)
Receive(p) ==
    /\ Sent
    /\ proc[p].pc = "idle"
    /\ \E input \in RequestInputs, user_agent \in UserAgents :
         LET h == Handled[input, user_agent]
             r == [Idle EXCEPT !.input = input, !.ua = user_agent, !.track_id = h.track_id]
         IN proc' = [proc EXCEPT ![p] =
                IF h.branch = "bot"
                  THEN [r EXCEPT !.pc = "lookup", !.now = clock, !.invocations = 1]
                  ELSE [r EXCEPT !.pc = "done", !.response = h.response]]
    /\ UNCHANGED <<cache, clock, purevars>>

\* line 51: if cache_key in cache
Lookup(p) ==
    /\ Sent
    /\ proc[p].pc = "lookup"
    /\ proc' = [proc EXCEPT ![p] =
                  IF CacheKey(proc[p].track_id[1]) \in DOMAIN cache
                    THEN [@ EXCEPT !.pc = "read"]
                    ELSE [@ EXCEPT !.pc = "fetch", !.missed = TRUE]]
    /\ UNCHANGED <<cache, clock, purevars>>

\* lines 52-57: cache[cache_key] raises KeyError when the key has gone;
\* otherwise a hit returns cached_data to handle_request (lines 162-164)
Read(p) ==
    /\ Sent
    /\ proc[p].pc = "read"
    /\ LET k == CacheKey(proc[p].track_id[1])
       IN proc' = [proc EXCEPT ![p] =
            IF k \notin DOMAIN cache
              THEN [@ EXCEPT !.pc = "done", !.now = 0, !.outcome = "raised", !.response = Unhandled]
            ELSE IF IsHit(proc[p].now, cache[k][2])
              THEN [@ EXCEPT !.pc = "done", !.now = 0, !.outcome = "hit",
                             !.response = BotResponse(proc[p].track_id[1], Some(cache[k][1]))]
            ELSE [@ EXCEPT !.pc = "del", !.missed = TRUE]]
    /\ UNCHANGED <<cache, clock, purevars>>

\* line 58: del cache[cache_key] raises KeyError when the key has gone
Delete(p) ==
    /\ Sent
    /\ proc[p].pc = "del"
    /\ LET k == CacheKey(proc[p].track_id[1])
       IN IF k \in DOMAIN cache
          THEN /\ cache' = CacheDel(cache, k)
               /\ proc' = [proc EXCEPT ![p].pc = "fetch"]
          ELSE /\ proc' = [proc EXCEPT ![p] =
                     [@ EXCEPT !.pc = "done", !.now = 0, !.outcome = "raised", !.response = Unhandled]]
               /\ UNCHANGED cache
    /\ UNCHANGED <<clock, purevars>>

\* lines 62-99 and 105-113: the one upstream call of this invocation, its
\* response (or exception) processed; a failure returns None to
\* handle_request (lines 165-167)
Fetch(p) ==
    /\ Sent
    /\ proc[p].pc = "fetch"
    /\ \E resp \in UpstreamResponses :
         LET result == Processed[proc[p].track_id[1], resp]
         IN proc' = [proc EXCEPT ![p] =
              IF result # None
                THEN [@ EXCEPT !.pc = "store", !.calls = @ + 1, !.got = Some(resp),
                               !.result_data = result]
                ELSE [@ EXCEPT !.pc = "done", !.calls = @ + 1, !.now = 0, !.got = Some(resp),
                               !.outcome = "failed",
                               !.response = BotResponse(proc[p].track_id[1], None)]]
    /\ UNCHANGED <<cache, clock, purevars>>

\* lines 101-103: the entry is stored and result_data returned (lines 162-164)
Store(p) ==
    /\ Sent
    /\ proc[p].pc = "store"
    /\ LET k == CacheKey(proc[p].track_id[1])
       IN cache' = CachePut(cache, k, <<proc[p].result_data[1], Expiry(proc[p].now, CACHE_DURATION)>>)
    /\ proc' = [proc EXCEPT ![p] =
                  [@ EXCEPT !.pc = "done", !.now = 0, !.outcome = "fetched", !.stored = TRUE,
                            !.response = BotResponse(proc[p].track_id[1], proc[p].result_data)]]
    /\ UNCHANGED <<clock, purevars>>

\* the response has been sent; the worker is free for the next request
Finish(p) ==
    /\ proc[p].pc = "done"
    /\ proc' = [proc EXCEPT ![p] = Idle]
    /\ UNCHANGED <<cache, clock, purevars>>

\* time passes
Tick ==
    /\ Sent
    /\ clock < MaxTime
    /\ clock' = clock + 1
    /\ UNCHANGED <<cache, proc, purevars>>

Next ==
    \/ \E p \in Procs : Receive(p)
    \/ \E p \in Procs : Lookup(p)
    \/ \E p \in Procs : Read(p)
    \/ \E p \in Procs : Delete(p)
    \/ \E p \in Procs : Fetch(p)
    \/ \E p \in Procs : Store(p)
    \/ \E p \in Procs : Finish(p)
    \/ Tick

Spec == Init /\ [][Next]_vars

TypeOK ==
    /\ clock \in 0..MaxTime
    /\ \A p \in Procs : proc[p].pc \in {"idle", "lookup", "read", "del", "fetch", "store", "done"}

\* ------------------------------------- the extractor on a family of inputs
EncUrlPrefix == <<"h", "t", "t", "p", "s", "%", "3", "A", "%", "2", "F", "%", "2", "F", "o", "p", "e", "n", ".", "s", "p", "o", "t", "i", "f", "y", ".", "c", "o", "m", "%", "2", "F", "t", "r", "a", "c", "k", "%", "2", "F">>
EncUriPrefix == <<"s", "p", "o", "t", "i", "f", "y", "%", "3", "a", "t", "r", "a", "c", "k", "%", "3", "A">>
AlbumPrefix == <<"h", "t", "t", "p", "s", ":", "/", "/", "o", "p", "e", "n", ".", "s", "p", "o", "t", "i", "f", "y", ".", "c", "o", "m", "/", "a", "l", "b", "u", "m", "/">>
CasePrefix == <<"S", "p", "o", "t", "i", "f", "y", ":", "T", "r", "a", "c", "k", ":">>
BadPctPrefix == <<"%", "z", "z", "%", "4", "s", "p", "o", "t", "i", "f", "y", ":", "t", "r", "a", "c", "k", ":">>
\* what stands before the identifier, the identifier, and what follows it
InputPrefixes ==
    { << >>, ORIGINAL_URL_PREFIX, TRACK_URI_PREFIX, EncUrlPrefix, EncUriPrefix,
      AlbumPrefix, CasePrefix, BadPctPrefix }
InputIds ==
    { ID1, SubSeq(ID1, 1, IdLen - 1), ID1 \o <<"a">>,
      SubSeq(ID1, 1, 10) \o <<"-">> \o SubSeq(ID1, 12, IdLen),
      <<"%", "3", "4">> \o Tail(ID1), << >> }
InputSuffixes == { << >>, Query, <<" ">> \o TRACK_URI_PREFIX \o ID2, <<"%">> }
InputPads == { << >>, <<" ">>, <<"\n", "\t">> }
ExtractInputs ==
    { a \o p \o i \o s \o b : a \in InputPads, p \in InputPrefixes, i \in InputIds,
                              s \in InputSuffixes, b \in InputPads }

InitExtract ==
    /\ cache = << >>
    /\ clock = 0
    /\ proc = [p \in Procs |-> Idle]
    /\ x_pc = "raw" /\ x_raw \in ExtractInputs /\ x_input = << >> /\ x_track = None
    /\ d_pc = "off" /\ d_data = << >> /\ d_result = None
    /\ b_pc = "off" /\ b_input = << >> /\ b_ua = << >> /\ b_out = << >>

\* lines 143-147: input_value = ....strip(); nothing left gives the landing page
XStrip ==
    /\ x_pc = "raw"
    /\ x_input' = Strip(x_raw)
    /\ x_pc' = IF Strip(x_raw) = << >> THEN "landing" ELSE "stripped"
    /\ UNCHANGED <<x_raw, x_track, mainvars, dvars, bvars>>

\* line 149: track_id = extract_spotify_track_id(input_value)
XExtract ==
    /\ x_pc = "stripped"
    /\ x_track' = extract_spotify_track_id(x_input)
    /\ x_pc' = "extracted"
    /\ UNCHANGED <<x_raw, x_input, mainvars, dvars, bvars>>

\* lines 26-44: the extractor called on a string as it is, the empty one included
XExtractRaw ==
    /\ x_pc = "raw"
    /\ x_input' = x_raw
    /\ x_track' = extract_spotify_track_id(x_raw)
    /\ x_pc' = "called"
    /\ UNCHANGED <<x_raw, mainvars, dvars, bvars>>

NextExtract == XStrip \/ XExtract \/ XExtractRaw

SpecExtract == InitExtract /\ [][NextExtract]_vars

\* ------------------------- one fetch on a family of oEmbed html fragments
IframeOpen == <<"<", "i", "f", "r", "a", "m", "e">>
SrcParts == { << >>, <<" ", "s", "r", "c", "=", "\"", "h", "t", "t", "p", "s", ":", "/", "/", "e", "m", "b", "e", "d", ".", "s", "p", "o", "t", "i", "f", "y", "/", "a", "b", "c", "\"">>, <<" ", "s", "r", "c", "=", "\"", "\"">> }
WidthParts ==
    { << >>, <<" ", "w", "i", "d", "t", "h", "=", "\"", "8", "0", "\"">>, <<" ", "w", "i", "d", "t", "h", "=", "\"", "1", "0", "0", "%", "\"">>,
      <<" ", "d", "a", "t", "a", "-", "w", "i", "d", "t", "h", "=", "\"", "5", "\"", " ", "w", "i", "d", "t", "h", "=", "\"", "8", "0", "\"">>,
      <<" ", "w", "i", "d", "t", "h", "=", "\"", "\"", " ", "w", "i", "d", "t", "h", "=", "\"", "6", "4", "0", "\"">> }
HeightParts ==
    { << >>, <<" ", "h", "e", "i", "g", "h", "t", "=", "\"", "3", "8", "0", "\"">>, <<" ", "h", "e", "i", "g", "h", "t", "=", "\"", "1", "5", "2", "\"", " ", "h", "e", "i", "g", "h", "t", "=", "\"", "9", "\"">>,
      <<" ", "h", "e", "i", "g", "h", "t", "=", "3", "5", "2">>, <<" ", "H", "E", "I", "G", "H", "T", "=", "\"", "1", "\"">> }
DimHtmls ==
    { IframeOpen \o a \o b \o c \o <<">">> :
        <<a, b, c>> \in (SrcParts \X WidthParts \X HeightParts)
                        \cup (HeightParts \X WidthParts \X SrcParts) }
DimBodies ==
    { [title |-> "Song", thumbnail_url |-> "thumb", html |-> h, provider_name |-> "Spotify"] : h \in DimHtmls }
    \cup { [title |-> "Song", thumbnail_url |-> "thumb", html |-> h] : h \in DimHtmls }

InitDims ==
    /\ cache = << >>
    /\ clock = 0
    /\ proc = [p \in Procs |-> Idle]
    /\ x_pc = "off" /\ x_raw = << >> /\ x_input = << >> /\ x_track = None
    /\ d_pc = "fetch" /\ d_data \in DimBodies /\ d_result = None
    /\ b_pc = "off" /\ b_input = << >> /\ b_ua = << >> /\ b_out = << >>

\* lines 62-99: the body of a 200 response is validated and result_data built
DFetch ==
    /\ d_pc = "fetch"
    /\ d_result' = ProcessResponse(ID1, [kind |-> "ok", data |-> d_data])
    /\ d_pc' = IF d_result' = None THEN "failed" ELSE "store"
    /\ UNCHANGED <<d_data, mainvars, xvars, bvars>>

\* lines 101-103: the entry is stored and result_data returned
DStore ==
    /\ d_pc = "store"
    /\ cache' = CachePut(cache, CacheKey(ID1), <<d_result[1], Expiry(clock, CACHE_DURATION)>>)
    /\ d_pc' = "returned"
    /\ UNCHANGED <<clock, proc, d_data, d_result, xvars, bvars>>

NextDims == DFetch \/ DStore

SpecDims == InitDims /\ [][NextDims]_vars

\* ------------------------------ routing on a family of User-Agent headers
UA_lower == <<"d", "i", "s", "c", "o", "r", "d", "b", "o", "t", "/", "2", ".", "0">>
CompatiblePrefix == <<"M", "o", "z", "i", "l", "l", "a", "/", "5", ".", "0", " ", "(", "c", "o", "m", "p", "a", "t", "i", "b", "l", "e", ";", " ">>
VersionSuffix == <<"/", "2", ".", "0">>
BotNames == { USER_AGENT_BOTS[b] : b \in 1..Len(USER_AGENT_BOTS) }
\* a bot name as listed, in lower case, in upper case, cut short by one
\* character, or no name at all
NameForms ==
    { << >> } \cup BotNames
    \cup { ToLower(n) : n \in BotNames } \cup { ToUpper(n) : n \in BotNames }
    \cup { SubSeq(n, 1, Len(n) - 1) : n \in BotNames }
\* request.headers.get('User-Agent', ''): a missing header is the empty string
RouteUserAgents ==
    { a \o n \o b : a \in { << >>, CompatiblePrefix }, n \in NameForms, b \in { << >>, VersionSuffix } }

InitRoute ==
    /\ cache = << >>
    /\ clock = 0
    /\ proc = [p \in Procs |-> Idle]
    /\ x_pc = "off" /\ x_raw = << >> /\ x_input = << >> /\ x_track = None
    /\ d_pc = "off" /\ d_data = << >> /\ d_result = None
    /\ b_pc = "received" /\ b_input \in RequestInputs /\ b_ua \in RouteUserAgents /\ b_out = << >>

\* lines 140-171: the branch handle_request takes for the request
BRoute ==
    /\ b_pc = "received"
    /\ b_out' = HandleRequest(b_input, b_ua)
    /\ b_pc' = "routed"
    /\ UNCHANGED <<b_input, b_ua, mainvars, xvars, dvars>>

NextRoute == BRoute

SpecRoute == InitRoute /\ [][NextRoute]_vars

\* =============================================================== claims
\* a User-Agent carrying none of the allow-listed names
NoBotName(user_agent) ==
    \A b \in {Discordbot, TelegramBot, facebookexternalhit, Twitterbot, Slackbot} :
        ~Contains(user_agent, b)
\* an upstream outcome that is not a fully validated oEmbed body
BadResponse(resp) ==
    \/ resp.kind \in {"timeout", "http_error", "connection_error", "bad_json"}
    \/ \E k \in {"title", "thumbnail_url", "html"} : k \notin DOMAIN resp.data
    \/ EmbedMatch(resp.data.html) = None
\* the User-Agents of the model that carry a listed name, and its upstream
\* outcomes that are not a validated body, each computed once
BotUserAgents == { u \in UserAgents : ~NoBotName(u) }
BadResponses == { r \in UpstreamResponses : BadResponse(r) }
CanonicalUrl(id) ==
    <<"h","t","t","p","s",":","/","/","o","p","e","n",".","s","p","o","t","i","f","y",".","c","o","m","/","t","r","a","c","k","/">> \o id
\* p leaves the idle position in this step: its request has been received
Received(p) == proc[p].pc = "idle" /\ proc'[p].pc # "idle"
NoUpstreamCall == \A q \in Procs : proc'[q].calls = proc[q].calls

\* --- C1
\* C1: the expiry stored with an entry is the time at which the entry is put
\* plus the configured TTL, so that a later lookup hits exactly while
\* now < put_time + ttl.
C1_ExpiryIsPutTimePlusTTL ==
    [][\A p \in Procs :
         (proc[p].pc = "store" /\ proc'[p].stored)
         => cache'[CacheKey(proc[p].track_id[1])][2] = clock + CACHE_DURATION]_vars

\* --- C2
\* C2: a lookup that reads an entry whose expiry is strictly after its now
\* returns the stored metadata at once: the request is answered with that
\* metadata, no upstream call is issued and the cache is left as it was.
C2_HitIsPure ==
    [][\A p \in Procs :
         (/\ proc[p].pc = "read"
          /\ proc'[p].pc # "read"
          /\ CacheKey(proc[p].track_id[1]) \in DOMAIN cache
          /\ proc[p].now < cache[CacheKey(proc[p].track_id[1])][2])
         => /\ proc'[p].pc = "done"
            /\ proc'[p].response.data = Some(cache[CacheKey(proc[p].track_id[1])][1])
            /\ proc'[p].calls = 0
            /\ NoUpstreamCall
            /\ cache' = cache]_vars
C2_Witness ==
    \E p \in Procs :
        /\ proc[p].pc = "done" /\ proc[p].outcome = "hit"
        /\ proc[p].calls = 0
        /\ CacheKey(proc[p].track_id[1]) \in DOMAIN cache
        /\ proc[p].response.data = Some(cache[CacheKey(proc[p].track_id[1])][1])

\* --- C3
\* C3: a bot request with an identifier is answered 200 with the embed page
\* exactly when get_spotify_data returned metadata (a hit or a validated
\* fetch); after any failed fetch it is answered 307 to the canonical URL.
C3_BotEmbedOrRedirect ==
    \A p \in Procs :
        (proc[p].pc = "done" /\ proc[p].track_id # None /\ proc[p].ua \in BotUserAgents) =>
            /\ (proc[p].response.status = 200) <=>
                   (\/ proc[p].outcome = "hit"
                    \/ proc[p].got # None /\ proc[p].got[1] \notin BadResponses)
            /\ proc[p].response.status = 200 =>
                   /\ proc[p].response.kind = "embed"
                   /\ proc[p].response.data # None
                   /\ proc[p].response.data[1].track_id = proc[p].track_id[1]
            /\ (proc[p].got # None /\ proc[p].got[1] \in BadResponses) =>
                   /\ proc[p].response.status = 307
                   /\ proc[p].response.location = Some(CanonicalUrl(proc[p].track_id[1]))
C3_Witness ==
    \E p \in Procs :
        /\ proc[p].pc = "done" /\ ~NoBotName(proc[p].ua)
        /\ proc[p].got = Some([kind |-> "timeout", data |-> None])
        /\ proc[p].response.status = 307
        /\ proc[p].response.location = Some(CanonicalUrl(ID1))

\* --- C4
\* C4: a request with an identifier and no bot name in its User-Agent is
\* answered 307 to the canonical URL in the step that receives it, without
\* entering get_spotify_data: no upstream call, the cache unchanged.
C4_NonBotRedirects ==
    [][\A p \in Procs :
         (Received(p) /\ NoBotName(proc'[p].ua) /\ proc'[p].track_id # None)
         => /\ proc'[p].pc = "done"
            /\ proc'[p].response.status = 307
            /\ proc'[p].response.location = Some(CanonicalUrl(proc'[p].track_id[1]))
            /\ proc'[p].invocations = 0
            /\ NoUpstreamCall
            /\ cache' = cache]_vars
C4_Witness ==
    \E p \in Procs :
        /\ proc[p].pc = "done" /\ NoBotName(proc[p].ua) /\ proc[p].track_id # None
        /\ proc[p].response.status = 307
        /\ proc[p].invocations = 0
        /\ CacheKey(proc[p].track_id[1]) \in DOMAIN cache

\* --- C5
AllWhitespace(s) == \A i \in 1..Len(s) : s[i] \in Whitespace
\* the inputs of the model that are not blank and hold no identifier
NoIdInputs ==
    { i \in RequestInputs : ~AllWhitespace(i) /\ extract_spotify_track_id(RStrip(LStrip(i))) = None }
\* C5: a request whose input is blank is answered 200 with the landing
\* page, one whose input holds no identifier 400 with the error page, for
\* every User-Agent; neither reaches get_spotify_data, issues an upstream
\* call or changes the cache.
C5_NoIdNeverFetches ==
    [][\A p \in Procs :
         Received(p) =>
            /\ AllWhitespace(proc'[p].input) =>
                  proc'[p].response.status = 200 /\ proc'[p].response.kind = "landing"
            /\ proc'[p].input \in NoIdInputs =>
                  proc'[p].response.status = 400 /\ proc'[p].response.kind = "error"
            /\ (AllWhitespace(proc'[p].input) \/ proc'[p].input \in NoIdInputs) =>
                  /\ proc'[p].pc = "done"
                  /\ proc'[p].invocations = 0
                  /\ NoUpstreamCall
                  /\ cache' = cache]_vars
C5_Witness ==
    \E p \in Procs :
        /\ proc[p].pc = "done" /\ ~NoBotName(proc[p].ua)
        /\ proc[p].input \in NoIdInputs
        /\ proc[p].response.status = 400
        /\ proc[p].invocations = 0
        /\ cache # << >>

\* --- C6
\* C6: interleaved get_spotify_data calls never end in an unhandled error:
\* every answer is one of 200, 307 and 400.
C6_NoUnhandledError ==
    \A p \in Procs : proc[p].pc = "done" => proc[p].response.status \in {200, 307, 400}

\* --- C7
\* C7: a call whose upstream outcome is a failure, a body lacking a required
\* key or an html without src ends there, returning failure, and stores
\* nothing; every entry that appears in the cache is put by a call holding a
\* fully validated response for that identifier.
C7_FailedFetchStoresNothing ==
    [][/\ \A p \in Procs :
            (proc[p].pc = "fetch" /\ proc'[p].got # None /\ proc'[p].got[1] \in BadResponses)
            => /\ proc'[p].pc = "done"
               /\ proc'[p].result_data = None
               /\ ~proc'[p].stored
               /\ cache' = cache
       /\ \A k \in DOMAIN cache' :
            (k \notin DOMAIN cache \/ cache'[k] # cache[k])
            => \E p \in Procs :
                 /\ proc[p].pc = "store"
                 /\ CacheKey(proc[p].track_id[1]) = k
                 /\ proc[p].got # None /\ proc[p].got[1] \notin BadResponses
                 /\ cache'[k][1].embed_url # None]_vars
C7_Witness ==
    \E p \in Procs :
        /\ proc[p].pc = "done"
        /\ proc[p].got # None /\ proc[p].got[1].kind = "ok"
        /\ "html" \in DOMAIN proc[p].got[1].data
        /\ EmbedMatch(proc[p].got[1].data.html) = None
        /\ ~proc[p].stored
        /\ CacheKey(proc[p].track_id[1]) \notin DOMAIN cache

\* --- C8
\* C8: one call of get_spotify_data issues at most one upstream call, none
\* on a hit and exactly one on a miss (no entry, or an expired one); one
\* request calls get_spotify_data at most once; a failed attempt is returned
\* at once.
C8_NoRetries ==
    \A p \in Procs :
        /\ proc[p].calls <= 1
        /\ proc[p].invocations <= 1
        /\ (proc[p].pc = "done" /\ proc[p].outcome = "hit") => proc[p].calls = 0
        /\ (proc[p].pc = "done" /\ proc[p].missed) => proc[p].calls = 1
        /\ (proc[p].got # None /\ BadResponse(proc[p].got[1])) => proc[p].pc = "done"

\* --- C9
IsBareId(s) == Len(s) = 22 /\ \A i \in 1..Len(s) : s[i] \in AlnumChars
\* s is an identifier with a whitespace before it and b whitespace after it
IsPaddedId(s, a, b) ==
    /\ Len(s) = a + 22 + b
    /\ \A i \in 1..Len(s) :
         IF i <= a \/ i > a + 22 THEN s[i] \in Whitespace ELSE s[i] \in AlnumChars
\* C9: a string of exactly 22 alphanumeric characters is returned unchanged,
\* and the rule is applied to the trimmed input: an identifier surrounded by
\* whitespace in the raw input comes back as the identifier alone.
C9_BareIdUnchanged ==
    x_pc = "extracted" =>
        /\ IsBareId(x_input) => x_track = Some(x_input)
        /\ \A a, b \in 0..2 :
             IsPaddedId(x_raw, a, b) => x_track = Some(SubSeq(x_raw, a + 1, a + 22))
C9_Witness ==
    /\ x_pc = "extracted"
    /\ x_raw = <<" ">> \o ID1 \o <<"\n", "\t">>
    /\ x_input = ID1
    /\ x_track = Some(ID1)

\* --- C10
\* the 22 characters after prefix p at position i of s are alphanumeric
IdFollows(s, i, p) ==
    /\ StartsWithAt(s, i, p)
    /\ Len(s) >= i + Len(p) + 21
    /\ \A j \in (i + Len(p))..(i + Len(p) + 21) : s[j] \in AlnumChars
TrackPrefixes == { TRACK_URL_PREFIX, TRACK_URI_PREFIX }
Occurrences(s) == { i \in 1..Len(s) : \E p \in TrackPrefixes : IdFollows(s, i, p) }
FirstOccurrence(s) == CHOOSE i \in Occurrences(s) : \A j \in Occurrences(s) : i <= j
\* percent-decoding, stated position by position: an escape is a % followed
\* by two hex digits (escapes cannot overlap, a hex digit is not a %); the
\* decoded string keeps every position that is not a digit of an escape,
\* each moved left by two places for every escape before it
Escapes(s) == { i \in 1..(Len(s) - 2) : s[i] = "%" /\ IsHex(s[i+1]) /\ IsHex(s[i+2]) }
Kept(s) == { i \in 1..Len(s) : (i - 1) \notin Escapes(s) /\ (i - 2) \notin Escapes(s) }
PercentDecoded(s) ==
    LET E == Escapes(s)
        K == Kept(s)
    IN [k \in 1..(Len(s) - 2 * Cardinality(E)) |->
          LET i == CHOOSE n \in K : n - 2 * Cardinality({ e \in E : e < n }) = k
          IN IF i \in E THEN Chr(16 * HexVal(s[i+1]) + HexVal(s[i+2])) ELSE s[i]]
\* C10: when the percent-decoded input contains spotify.com/track/<id> or
\* spotify:track:<id> as a substring, the extractor returns the 22
\* characters of the first such occurrence in the decoded string.
C10_FirstOccurrence ==
    (x_pc = "extracted" /\ ~IsBareId(x_input)) =>
        LET d == PercentDecoded(x_input)
        IN Occurrences(d) # {} =>
             LET i == FirstOccurrence(d)
                 p == CHOOSE q \in TrackPrefixes : IdFollows(d, i, q)
             IN x_track = Some(SubSeq(d, i + Len(p), i + Len(p) + 21))
C10_Witness ==
    /\ x_pc = "extracted"
    /\ Occurrences(x_input) # {} /\ FirstOccurrence(PercentDecoded(x_input)) < FirstOccurrence(x_input)
    /\ x_input = EncUriPrefix \o ID1 \o <<" ">> \o TRACK_URI_PREFIX \o ID2
    /\ x_track = Some(ID1)

\* --- C11
\* s is neither a bare identifier nor, once percent-decoded, a string that
\* contains a track URL or track URI followed by an identifier
MatchesNeither(s) == ~IsBareId(s) /\ Occurrences(PercentDecoded(s)) = {}
IsAlnumOfLen(s, n) == Len(s) = n /\ \A i \in 1..Len(s) : s[i] \in AlnumChars
\* a % that is not followed by two hex digits
MalformedEscape(s) == \E i \in 1..Len(s) : s[i] = "%" /\ i \notin Escapes(s)
\* C11: the extractor returns None for every string that matches neither
\* form: the empty string, a bare alphanumeric string of 21 or 23
\* characters, malformed percent-encoding around no identifier.
C11_NoMatchIsNone ==
    x_pc \in {"extracted", "called"} =>
        /\ MatchesNeither(x_input) => x_track = None
        /\ x_input = << >> => x_track = None
        /\ (IsAlnumOfLen(x_input, 21) \/ IsAlnumOfLen(x_input, 23)) => x_track = None
C11_Witness ==
    /\ x_pc = "called"
    /\ x_input = BadPctPrefix \o SubSeq(ID1, 1, IdLen - 1) \o <<"%">>
    /\ MalformedEscape(x_input) /\ MatchesNeither(x_input)
    /\ x_track = None

\* --- C12
\* C12: an entry whose expiry is at or before a call's now is never
\* returned; the call that reads it removes it and goes upstream; a call
\* that finds no entry goes upstream leaving the cache alone; and no call
\* attempts to remove an entry that is no longer there.
C12_LazyExpiryIdempotent ==
    [][\A p \in Procs :
         LET k == CacheKey(proc[p].track_id[1])
         IN /\ (proc[p].pc = "read" /\ proc'[p].outcome = "hit")
                  => k \in DOMAIN cache /\ proc[p].now < cache[k][2]
            /\ (proc[p].pc = "read" /\ proc'[p].pc # "read"
                   /\ k \in DOMAIN cache /\ proc[p].now >= cache[k][2])
                  => proc'[p].pc = "del" /\ proc'[p].response = NoResponse
            /\ (proc[p].pc = "lookup" /\ proc'[p].pc # "lookup" /\ k \notin DOMAIN cache)
                  => proc'[p].pc = "fetch" /\ cache' = cache
            /\ (proc[p].pc = "del" /\ proc'[p].pc # "del")
                  => /\ k \in DOMAIN cache
                     /\ k \notin DOMAIN cache'
                     /\ proc'[p].pc = "fetch"]_vars

\* --- C13
\* the keys whose entry differs between the two states of a step
ChangedKeys ==
    { k \in (DOMAIN cache) \cup (DOMAIN cache') :
        \/ k \notin DOMAIN cache
        \/ k \notin DOMAIN cache'
        \/ cache'[k] # cache[k] }
\* C13: the entry of an identifier changes only by removal, by a lookup for
\* that identifier for which the removed entry is expired, or by replacement
\* with the pair of a successful fetch for that identifier; a step changes
\* the entry of at most one identifier, that of the call taking the step.
C13_EntryLifecycle ==
    [][/\ Cardinality(ChangedKeys) <= 1
       /\ \A k \in ChangedKeys :
            \E p \in Procs :
              /\ proc[p].track_id # None /\ CacheKey(proc[p].track_id[1]) = k
              /\ proc'[p] # proc[p]
              /\ \/ /\ k \in DOMAIN cache /\ k \notin DOMAIN cache'
                    /\ proc[p].pc = "del"
                    /\ proc[p].now >= cache[k][2]
                 \/ /\ k \in DOMAIN cache'
                    /\ proc[p].pc = "store"
                    /\ proc[p].got # None /\ ~BadResponse(proc[p].got[1])
                    /\ cache'[k][1] = proc[p].result_data[1]]_vars

\* --- C14
\* another call for the identifier of p is between its miss and its return
OtherInFlight(p) ==
    \E q \in Procs \ {p} :
        /\ proc[q].pc \in {"fetch", "store"}
        /\ proc[q].track_id = proc[p].track_id
\* the record lines 84-99 build for each identifier from each upstream body
\* that passes validation, computed once
OwnMetadata ==
    [id \in TrackIds, resp \in { r \in UpstreamResponses : ~BadResponse(r) } |->
        ResultData(id, resp.data)]
\* C14: a call that finds no entry goes upstream even while another call
\* for the same identifier is in flight; each such call then either fails,
\* answering the redirect and leaving the cache alone, or stores under the
\* one key of the identifier the complete pair of its own metadata and its
\* own now plus the TTL, and answers with its own metadata.
C14_ConcurrentMissesHarmless ==
    [][\A p \in Procs :
         LET id == proc[p].track_id[1]
             k == CacheKey(id)
         IN /\ (proc[p].pc = "lookup" /\ proc'[p].pc # "lookup"
                   /\ k \notin DOMAIN cache /\ OtherInFlight(p))
                  => proc'[p].pc = "fetch" /\ cache' = cache
            /\ (proc[p].pc = "fetch" /\ proc'[p].pc # "fetch")
                  => /\ proc'[p].calls = proc[p].calls + 1
                     /\ cache' = cache
                     /\ \/ /\ proc'[p].pc = "store"
                           /\ proc'[p].got[1] \notin BadResponses
                           /\ proc'[p].result_data = Some(OwnMetadata[id, proc'[p].got[1]])
                        \/ /\ proc'[p].pc = "done"
                           /\ proc'[p].outcome = "failed"
                           /\ proc'[p].response.status = 307
                           /\ proc'[p].response.location = Some(CanonicalUrl(id))
            /\ (proc[p].pc = "store" /\ proc'[p].pc # "store")
                  => /\ DOMAIN cache' = (DOMAIN cache) \cup {k}
                     /\ cache'[k] = <<proc[p].result_data[1], proc[p].now + CACHE_DURATION>>
                     /\ \A j \in (DOMAIN cache) \ {k} : cache'[j] = cache[j]
                     /\ proc'[p].pc = "done"
                     /\ proc'[p].response.status = 200
                     /\ proc'[p].response.data = proc[p].result_data]_vars
\* both calls missed and fetched; one has stored and answered, the other is
\* about to store over it
C14_Witness ==
    \E p, q \in Procs :
        /\ p # q /\ proc[p].track_id = proc[q].track_id
        /\ proc[p].missed /\ proc[q].missed
        /\ proc[p].calls = 1 /\ proc[q].calls = 1
        /\ proc[p].pc = "done" /\ proc[p].outcome = "fetched"
        /\ proc[q].pc = "store" /\ proc[q].now = 1
        /\ cache[CacheKey(proc[p].track_id[1])] = <<proc[p].result_data[1], CACHE_DURATION>>

\* --- C15
\* attr, then n >= 1 characters all in (or, when neg, all outside) the set
\* cs, then a quote, stands at position i of s
ValueAt(s, i, attr, cs, neg, n) ==
    /\ StartsWithAt(s, i, attr)
    /\ i + Len(attr) + n <= Len(s)
    /\ \A j \in (i + Len(attr))..(i + Len(attr) + n - 1) : (s[j] \in cs) # neg
    /\ s[i + Len(attr) + n] = "\""
AttrOccurrences(s, attr, cs, neg) ==
    { i \in 1..Len(s) : \E n \in 1..Len(s) : ValueAt(s, i, attr, cs, neg, n) }
\* the value of the first attr="N" of s, or the default when there is none
FirstNumberOr(s, attr, default) ==
    LET occ == AttrOccurrences(s, attr, Digits, FALSE)
    IN IF occ = {} THEN default
       ELSE LET i == CHOOSE a \in occ : \A b \in occ : a <= b
                n == CHOOSE m \in 1..Len(s) : ValueAt(s, i, attr, Digits, FALSE, m)
            IN SubSeq(s, i + Len(attr), i + Len(attr) + n - 1)
\* C15: a fetch succeeds exactly when the html carries a src, whatever it
\* says of width and height; its width is the first width="N" of the html
\* or 300, its height the first height="N" or 380, each whatever the other
\* is; and the record stored in the cache carries the same two values.
C15_DimensionsDefaultIndependently ==
    d_pc \in {"failed", "store", "returned"} =>
        /\ (d_result # None) <=> (AttrOccurrences(d_data.html, SrcAttr, {"\""}, TRUE) # {})
        /\ d_result # None =>
              /\ d_pc \in {"store", "returned"}
              /\ d_result[1].width = FirstNumberOr(d_data.html, WidthAttr, <<"3", "0", "0">>)
              /\ d_result[1].height = FirstNumberOr(d_data.html, HeightAttr, <<"3", "8", "0">>)
        /\ d_pc = "returned" =>
              /\ CacheKey(ID1) \in DOMAIN cache
              /\ cache[CacheKey(ID1)][1] = d_result[1]
C15_Witness ==
    /\ d_pc = "returned"
    /\ AttrOccurrences(d_data.html, WidthAttr, Digits, FALSE) = {}
    /\ AttrOccurrences(d_data.html, HeightAttr, Digits, FALSE) # {}
    /\ cache[CacheKey(ID1)][1].width = <<"3", "0", "0">>
    /\ cache[CacheKey(ID1)][1].height = <<"1", "5", "2">>

\* --- C16
\* one of the listed names stands in the User-Agent, character for character
NamedBot(user_agent) ==
    \E n \in {Discordbot, TelegramBot, facebookexternalhit, Twitterbot, Slackbot} :
        \E i \in 1..(Len(user_agent) - Len(n) + 1) :
            \A j \in 1..Len(n) : user_agent[i + j - 1] = n[j]
\* C16: a request with an identifier takes the bot branch exactly when one
\* of the listed names stands in its User-Agent in the listed case; with no
\* User-Agent, or a name in another case, it is answered 307 to the
\* canonical URL.
C16_BotMatchIsCaseSensitive ==
    (b_pc = "routed" /\ b_out.track_id # None) =>
        /\ (b_out.branch = "bot") <=> NamedBot(b_ua)
        /\ ~NamedBot(b_ua) =>
              /\ b_out.branch = "redirect"
              /\ b_out.response.status = 307
              /\ b_out.response.location = Some(CanonicalUrl(b_out.track_id[1]))
        /\ b_ua = << >> => b_out.branch = "redirect"
        /\ (\E n \in {Discordbot, TelegramBot, facebookexternalhit, Twitterbot, Slackbot} :
               b_ua \in {ToLower(n), ToUpper(n)} \ {n}) => b_out.branch = "redirect"
C16_Witness ==
    /\ b_pc = "routed"
    /\ b_ua = UA_lower
    /\ b_out.track_id = Some(ID1)
    /\ b_out.branch = "redirect"
    /\ b_out.response.status = 307

\* --- C17
\* the entry under key k: the key is spotify:<id>, the value a pair of a
\* full record for <id> with an embed URL and an expiry that is the now of
\* a call plus the TTL
WellFormedEntry(k) ==
    /\ Len(k) = 8 + 22
    /\ SubSeq(k, 1, 8) = <<"s", "p", "o", "t", "i", "f", "y", ":">>
    /\ LET id == SubSeq(k, 9, 30)
           entry == cache[k]
       IN /\ \A i \in 1..22 : id[i] \in AlnumChars
          /\ DOMAIN entry = 1..2
          /\ DOMAIN entry[1] =
                {"title", "thumbnail_url", "original_url", "embed_url", "width", "height",
                 "provider_name", "service_name", "your_twitter_handle", "track_id"}
          /\ Len(entry[1].embed_url) >= 1
          /\ entry[1].track_id = id
          /\ entry[1].original_url = CanonicalUrl(id)
          /\ entry[2] \in CACHE_DURATION..(clock + CACHE_DURATION)
\* C17: in every reachable state every cache entry is keyed spotify:<id>
\* and is a complete (metadata, expiry) pair whose metadata has an embed
\* URL, track_id <id> and original_url https://open.spotify.com/track/<id>.
C17_CacheWellFormed == \A k \in DOMAIN cache : WellFormedEntry(k)
\* entries for both identifiers, and a call about to store over one of them
C17_Witness ==
    /\ Cardinality(DOMAIN cache) = 2
    /\ \E p \in Procs :
         /\ proc[p].pc = "store"
         /\ CacheKey(proc[p].track_id[1]) \in DOMAIN cache
         /\ cache[CacheKey(proc[p].track_id[1])][2] # proc[p].now + CACHE_DURATION

====
